---- MODULE Spec2Model ----
(***************************************************************************)
(* A model of src/venv/sudoku-solver.py: the validator (check_invalid),    *)
(* the candidate generator (generate_candidates), the scan for empty      *)
(* cells (find_spaces), the recursive backtracking search (solver) with   *)
(* its call stack made explicit, and the entry point (sudoku_solver).     *)
(***************************************************************************)
EXTENDS Integers, Sequences, FiniteSets

VARIABLES
    input,          \* the array passed to sudoku_solver (never written by it)
    pc,             \* position in sudoku_solver: "start", "search", "done"
    sudoku,         \* the list of lists the search mutates in place
    zeroes,         \* the list of empty coordinates, shared by all frames
    zeroes_is_None, \* find_spaces returned None instead of a list
    stack,          \* the solver invocations nested on the call stack
    ret,            \* what the last solver invocation returned
    result,         \* what sudoku_solver returned
    calls           \* how many times sudoku_solver has been applied

vars == <<input, pc, sudoku, zeroes, zeroes_is_None, stack, ret, result, calls>>

---------------------------------------------------------------------------
(* Program constants *)

\* range(9), range(0, 9): the side of the board
N == 9

\* range(3), row % 3: the side of a box
BoxN == 3

\* np.full((9, 9), -1): the value filling the failure grid
FailVal == -1

Idx == 0 .. (N - 1)
Digits == 1 .. N

---------------------------------------------------------------------------
(* Bounds of the model and the boards it starts from *)

\* how many cells of the pool vary over the initial boards
PoolSize == 8

\* how many times sudoku_solver is applied in a row (to its own output)
MaxCalls == 2

\* A solved board (the one CPython 3.11 returns for the all-empty board). The
\* initial boards are this board with the cells of the pool emptied or changed.
BaseRows ==
    << <<1, 2, 3, 4, 5, 8, 9, 6, 7>>,
       <<4, 5, 8, 6, 7, 9, 1, 2, 3>>,
       <<9, 6, 7, 1, 2, 3, 8, 4, 5>>,
       <<2, 1, 9, 8, 3, 4, 5, 7, 6>>,
       <<3, 8, 4, 5, 6, 7, 2, 1, 9>>,
       <<5, 7, 6, 9, 1, 2, 3, 8, 4>>,
       <<8, 9, 1, 3, 4, 6, 7, 5, 2>>,
       <<6, 3, 2, 7, 8, 5, 4, 9, 1>>,
       <<7, 4, 5, 2, 9, 1, 6, 3, 8>> >>

Base == [r \in Idx |-> [c \in Idx |-> BaseRows[r + 1][c + 1]]]

\* The cells that vary. (0,3),(0,5),(3,3),(3,5) hold 4 8 / 8 4 in Base, so
\* emptying them leaves two completions; (0,4) lies between the first two in
\* row-major order; (4,2),(4,3),(8,2) hold 4 5 / 5 and share a row, a column
\* or a box with the others; (4,1) is the last cell of a raised PoolSize.
PoolCells == << <<0, 3>>, <<0, 4>>, <<0, 5>>, <<3, 3>>, <<3, 5>>, <<4, 2>>,
                <<4, 3>>, <<8, 2>>, <<4, 1>> >>

\* the values a pool cell may take besides 0 and its value in Base
AltVals == {4}

Min(a, b) == IF a < b THEN a ELSE b

PoolN == Min(PoolSize, Len(PoolCells))

PoolVals == {0} \cup AltVals \cup {Base[PoolCells[i][1]][PoolCells[i][2]] : i \in 1 .. PoolN}

PoolChoices ==
    {f \in [1 .. PoolN -> PoolVals] :
        \A i \in 1 .. PoolN :
            f[i] \in {0, Base[PoolCells[i][1]][PoolCells[i][2]]} \cup AltVals}

BoardOf(f) ==
    [r \in Idx |-> [c \in Idx |->
        IF \E i \in 1 .. PoolN : PoolCells[i] = <<r, c>>
        THEN f[CHOOSE i \in 1 .. PoolN : PoolCells[i] = <<r, c>>]
        ELSE Base[r][c]]]

InputBoards == {BoardOf(f) : f \in PoolChoices}

---------------------------------------------------------------------------
(* Python values *)

\* list(s) of a set s: the language fixes no iteration order, so any order
\* of the elements is a list the conversion may produce.
ListOrders(S) ==
    {q \in [1 .. Cardinality(S) -> S] :
        \A i, j \in 1 .. Cardinality(S) : q[i] = q[j] => i = j}

\* set(l) of a list l
SetOf(l) == {l[i] : i \in 1 .. Len(l)}

\* [b[...] for i in range(0, 9) if b[...] > 0] over a list of 9 values
Positive(v) == v > 0

\* np.full((9, 9), -1)
failure == [r \in Idx |-> [c \in Idx |-> FailVal]]

---------------------------------------------------------------------------
(* check_invalid *)

\* row_vals: the values > 0 of row idx, in column order
row_vals(b, idx) == SelectSeq([i \in 1 .. N |-> b[idx][i - 1]], Positive)

\* col_vals: the values > 0 of column idx, in row order
col_vals(b, idx) == SelectSeq([i \in 1 .. N |-> b[i - 1][idx]], Positive)

\* box_vals: the values > 0 of the box whose top left cell is (r0, c0),
\* appended for i in range(3), for j in range(3)
box_vals(b, r0, c0) ==
    SelectSeq([k \in 1 .. BoxN * BoxN |->
                  b[r0 + ((k - 1) \div BoxN)][c0 + ((k - 1) % BoxN)]],
              Positive)

\* a list and the set made of it differ in length: the list has a duplicate
LenMismatch(l) == Len(l) # Cardinality(SetOf(l))

\* check_invalid without the test of the columns
check_invalid_no_columns(b) ==
    \/ \E idx \in Idx : LenMismatch(row_vals(b, idx))
    \/ \E row_idx, col_idx \in 0 .. (BoxN - 1) :
          LenMismatch(box_vals(b, row_idx * BoxN, col_idx * BoxN))

NonNegative(v) == v >= 0

\* check_invalid collecting the values >= 0 instead of > 0
check_invalid_counts_zeroes(b) ==
    \/ \E idx \in Idx :
          \/ LenMismatch(SelectSeq([i \in 1 .. N |-> b[i - 1][idx]], NonNegative))
          \/ LenMismatch(SelectSeq([i \in 1 .. N |-> b[idx][i - 1]], NonNegative))
    \/ \E row_idx, col_idx \in 0 .. (BoxN - 1) :
          LenMismatch(box_vals(b, row_idx * BoxN, col_idx * BoxN))

check_invalid(b) ==
    \/ \E idx \in Idx :
          LenMismatch(col_vals(b, idx)) \/ LenMismatch(row_vals(b, idx))
    \/ \E row_idx, col_idx \in 0 .. (BoxN - 1) :
          LenMismatch(box_vals(b, row_idx * BoxN, col_idx * BoxN))

---------------------------------------------------------------------------
(* generate_candidates *)

\* candidate_set without the values of the box
candidate_set_no_box(b, row, col) ==
    Digits \ (SetOf(row_vals(b, row)) \cup SetOf(col_vals(b, col)))

\* candidate_set without the values of the row
candidate_set_no_row(b, row, col) ==
    Digits \ (SetOf(box_vals(b, row - (row % BoxN), col - (col % BoxN)))
                 \cup SetOf(col_vals(b, col)))

\* set(range(1, 10)) - set().union(box_vals, row_vals, col_vals)
candidate_set(b, row, col) ==
    LET mod_row == row % BoxN
        mod_col == col % BoxN
        final_set == SetOf(box_vals(b, row - mod_row, col - mod_col))
                        \cup SetOf(row_vals(b, row))
                        \cup SetOf(col_vals(b, col))
    IN  Digits \ final_set

\* The lists a call may return: list(...) of the candidate set.
generate_candidates(b, row, col) == ListOrders(candidate_set(b, row, col))

---------------------------------------------------------------------------
(* find_spaces *)

RECURSIVE ScanFrom(_, _)
\* the loop of find_spaces from position k (row-major, k = 9 * row + col)
ScanFrom(b, k) ==
    IF k >= N * N THEN <<>>
    ELSE LET row_pos == k \div N
             col_pos == k % N
         IN  IF b[row_pos][col_pos] = 0
             THEN <<(<<row_pos, col_pos>>)>> \o ScanFrom(b, k + 1)
             ELSE ScanFrom(b, k + 1)

\* the list find_spaces returns; None when the scan found nothing
find_spaces(b) == ScanFrom(b, 0)

find_spaces_is_None(b) == ScanFrom(b, 0) = <<>>

---------------------------------------------------------------------------
(* The state machine *)

\* `if zeroes:` None and the empty list are both false
Truthy == ~zeroes_is_None /\ zeroes # <<>>

Top == stack[Len(stack)]

Pop == SubSeq(stack, 1, Len(stack) - 1)

\* a solver invocation that has just been entered; board0 and zeroes0 record
\* the board and the list as they were on entry
NewFrame(b, z) ==
    [pc |-> "entry", x |-> 0, y |-> 0, cands |-> <<>>, board0 |-> b, zeroes0 |-> z]

ReplaceTop(f) == [stack EXCEPT ![Len(stack)] = f]

Init ==
    /\ input \in InputBoards
    /\ pc = "start"
    /\ sudoku = input
    /\ zeroes = <<>>
    /\ zeroes_is_None = FALSE
    /\ stack = <<>>
    /\ ret = "pending"
    /\ result = input
    /\ calls = 1

\* sudoku_solver, lines 18-22: the board is invalid, return the failure grid
sudoku_solver_invalid ==
    /\ pc = "start"
    /\ check_invalid(input)
    /\ result' = failure
    /\ pc' = "done"
    /\ UNCHANGED <<input, sudoku, zeroes, zeroes_is_None, stack, ret, calls>>

\* sudoku_solver, lines 21-31: tolist, find_spaces, call solver
sudoku_solver_search ==
    /\ pc = "start"
    /\ ~check_invalid(input)
    /\ sudoku' = input
    /\ zeroes' = find_spaces(input)
    /\ zeroes_is_None' = find_spaces_is_None(input)
    /\ stack' = <<NewFrame(input, find_spaces(input))>>
    /\ ret' = "pending"
    /\ pc' = "search"
    /\ UNCHANGED <<input, result, calls>>

\* solver_pop reading zeroes[0] without removing it
solver_pop_keeps_space ==
    /\ pc = "search" /\ stack # <<>> /\ Top.pc = "entry"
    /\ Truthy
    /\ LET x == Head(zeroes)[1]
           y == Head(zeroes)[2]
       IN  \E candidate_vals \in generate_candidates(sudoku, x, y) :
              stack' = ReplaceTop([Top EXCEPT !.pc = "loop", !.x = x, !.y = y,
                                              !.cands = candidate_vals])
    /\ UNCHANGED <<input, pc, sudoku, zeroes, zeroes_is_None, ret, result, calls>>

\* solver, lines 62-68: pop the next space and list its candidates.
\* generate_candidates always returns a list, so the test `candidate_vals == None`
\* of line 72 is false and lines 73-75 never run.
solver_pop ==
    /\ pc = "search" /\ stack # <<>> /\ Top.pc = "entry"
    /\ Truthy
    /\ LET x == Head(zeroes)[1]
           y == Head(zeroes)[2]
       IN  \E candidate_vals \in generate_candidates(sudoku, x, y) :
              stack' = ReplaceTop([Top EXCEPT !.pc = "loop", !.x = x, !.y = y,
                                              !.cands = candidate_vals])
    /\ zeroes' = Tail(zeroes)
    /\ UNCHANGED <<input, pc, sudoku, zeroes_is_None, ret, result, calls>>

\* solver_complete returning None when find_spaces gave None
solver_complete_None_fails ==
    /\ pc = "search" /\ stack # <<>> /\ Top.pc = "entry"
    /\ ~Truthy
    /\ stack' = Pop
    /\ ret' = IF zeroes_is_None THEN "none" ELSE "board"
    /\ UNCHANGED <<input, pc, sudoku, zeroes, zeroes_is_None, result, calls>>

\* solver, line 97: no space left, return the board
solver_complete ==
    /\ pc = "search" /\ stack # <<>> /\ Top.pc = "entry"
    /\ ~Truthy
    /\ stack' = Pop
    /\ ret' = "board"
    /\ UNCHANGED <<input, pc, sudoku, zeroes, zeroes_is_None, result, calls>>

\* solver, lines 77-84: place the next value and call solver
solver_try ==
    /\ pc = "search" /\ stack # <<>> /\ Top.pc = "loop"
    /\ Top.cands # <<>>
    /\ sudoku' = [sudoku EXCEPT ![Top.x][Top.y] = Head(Top.cands)]
    /\ stack' = Append(ReplaceTop([Top EXCEPT !.pc = "call", !.cands = Tail(Top.cands)]),
                       NewFrame(sudoku', zeroes))
    /\ ret' = "pending"
    /\ UNCHANGED <<input, pc, zeroes, zeroes_is_None, result, calls>>

\* solver, lines 84-85: the call returned a board, return it
solver_found ==
    /\ pc = "search" /\ stack # <<>> /\ Top.pc = "call"
    /\ ret = "board"
    /\ stack' = Pop
    /\ UNCHANGED <<input, pc, sudoku, zeroes, zeroes_is_None, ret, result, calls>>

\* solver, lines 84, 77: the call returned None, go on with the loop
solver_next ==
    /\ pc = "search" /\ stack # <<>> /\ Top.pc = "call"
    /\ ret = "none"
    /\ stack' = ReplaceTop([Top EXCEPT !.pc = "loop"])
    /\ ret' = "pending"
    /\ UNCHANGED <<input, pc, sudoku, zeroes, zeroes_is_None, result, calls>>

\* solver_backtrack without sudoku[x][y] = 0
solver_backtrack_no_reset ==
    /\ pc = "search" /\ stack # <<>> /\ Top.pc = "loop"
    /\ Top.cands = <<>>
    /\ zeroes' = <<(<<Top.x, Top.y>>)>> \o zeroes
    /\ stack' = Pop
    /\ ret' = "none"
    /\ UNCHANGED <<input, pc, sudoku, zeroes_is_None, result, calls>>

\* solver_backtrack without zeroes.insert(0, (x, y))
solver_backtrack_no_insert ==
    /\ pc = "search" /\ stack # <<>> /\ Top.pc = "loop"
    /\ Top.cands = <<>>
    /\ sudoku' = [sudoku EXCEPT ![Top.x][Top.y] = 0]
    /\ stack' = Pop
    /\ ret' = "none"
    /\ UNCHANGED <<input, pc, zeroes, zeroes_is_None, result, calls>>

\* solver, lines 87-94: no value left, reset the space, put it back, return None
solver_backtrack ==
    /\ pc = "search" /\ stack # <<>> /\ Top.pc = "loop"
    /\ Top.cands = <<>>
    /\ sudoku' = [sudoku EXCEPT ![Top.x][Top.y] = 0]
    /\ zeroes' = <<(<<Top.x, Top.y>>)>> \o zeroes
    /\ stack' = Pop
    /\ ret' = "none"
    /\ UNCHANGED <<input, pc, zeroes_is_None, result, calls>>

\* sudoku_solver_return without the test for None
sudoku_solver_return_ignores_None ==
    /\ pc = "search" /\ stack = <<>>
    /\ result' = sudoku
    /\ pc' = "done"
    /\ UNCHANGED <<input, sudoku, zeroes, zeroes_is_None, stack, ret, calls>>

\* sudoku_solver, lines 33-41: the failure grid for None, else the board
sudoku_solver_return ==
    /\ pc = "search" /\ stack = <<>>
    /\ result' = IF ret = "none" THEN failure ELSE sudoku
    /\ pc' = "done"
    /\ UNCHANGED <<input, sudoku, zeroes, zeroes_is_None, stack, ret, calls>>

\* the caller applies sudoku_solver to the board it has just returned
resubmit ==
    /\ pc = "done"
    /\ result # failure
    /\ calls < MaxCalls
    /\ input' = result
    /\ sudoku' = result
    /\ result' = result
    /\ pc' = "start"
    /\ zeroes' = <<>>
    /\ zeroes_is_None' = FALSE
    /\ stack' = <<>>
    /\ ret' = "pending"
    /\ calls' = calls + 1

Next ==
    \/ sudoku_solver_invalid
    \/ sudoku_solver_search
    \/ solver_pop
    \/ solver_complete
    \/ solver_try
    \/ solver_found
    \/ solver_next
    \/ solver_backtrack
    \/ sudoku_solver_return
    \/ resubmit

Spec == Init /\ [][Next]_vars

---------------------------------------------------------------------------
(* The rules of the puzzle, stated on their own *)

Cells == Idx \X Idx

SameRow(p, q) == p[1] = q[1]
SameCol(p, q) == p[2] = q[2]
SameBox(p, q) == (p[1] \div 3 = q[1] \div 3) /\ (p[2] \div 3 = q[2] \div 3)

SameUnit(p, q) == SameRow(p, q) \/ SameCol(p, q) \/ SameBox(p, q)

At(b, p) == b[p[1]][p[2]]

\* a row holds a non-zero value twice
RowDuplicate(b) ==
    \E r \in Idx : \E c \in Idx :
        b[r][c] # 0 /\ \E d \in (c + 1) .. (N - 1) : b[r][d] = b[r][c]

\* a column holds a non-zero value twice
ColDuplicate(b) ==
    \E r \in Idx : \E c \in Idx :
        b[r][c] # 0 /\ \E s \in (r + 1) .. (N - 1) : b[s][c] = b[r][c]

\* the three rows (or columns) of band i
Band(i) == {3 * i, 3 * i + 1, 3 * i + 2}

\* a box holds a non-zero value twice
BoxDuplicate(b) ==
    \E i \in 0 .. 2 : \E j \in 0 .. 2 :
        \E r \in Band(i) : \E c \in Band(j) :
            b[r][c] # 0 /\
            \E s \in Band(i) : \E d \in Band(j) :
                <<s, d>> # <<r, c>> /\ b[s][d] = b[r][c]

\* some row, column or box holds a non-zero value twice
HasDuplicate(b) == RowDuplicate(b) \/ ColDuplicate(b) \/ BoxDuplicate(b)

EmptyCells(b) == {p \in Cells : At(b, p) = 0}

NoEmpty(b) == EmptyCells(b) = {}

\* the 27 units, each a set of 9 cells
Units ==
    {{p \in Cells : p[1] = r} : r \in Idx}
        \cup {{p \in Cells : p[2] = c} : c \in Idx}
        \cup {{p \in Cells : p[1] \div 3 = i /\ p[2] \div 3 = j} : i, j \in 0 .. 2}

\* every row, column and box holds each digit 1..9 exactly once
IsSolved(b) ==
    \A u \in Units : \A d \in 1 .. 9 :
        Cardinality({p \in u : At(b, p) = d}) = 1

\* g keeps every non-zero cell of b
Agrees(g, b) == \A p \in Cells : At(b, p) # 0 => At(g, p) = At(b, p)

\* the digits no cell sharing a unit with p holds
FreeDigits(b, p) ==
    {d \in 1 .. 9 : \A r \in Idx : \A c \in Idx :
        b[r][c] = d => (<<r, c>> = p \/ ~SameUnit(p, <<r, c>>))}

RECURSIVE Fillings(_, _)
\* the boards got from b by filling the cells of todo, one at a time, with a
\* digit none of the cell's units holds yet
Fillings(b, todo) ==
    IF todo = {} THEN {b}
    ELSE LET p == CHOOSE q \in todo : TRUE
         IN  UNION {Fillings([b EXCEPT ![p[1]][p[2]] = d], todo \ {p}) :
                        d \in FreeDigits(b, p)}

\* the completions of b: the solved boards that keep b's non-zero cells
Completions(b) == {g \in Fillings(b, EmptyCells(b)) : IsSolved(g) /\ Agrees(g, b)}

\* q comes before p in row-major order
Before(q, p) == q[1] < p[1] \/ (q[1] = p[1] /\ q[2] < p[2])

\* g is smaller than h at the first cell, in row-major order, where they differ
LexLess(g, h) ==
    \E p \in Cells :
        /\ At(g, p) < At(h, p)
        /\ \A q \in Cells : Before(q, p) => At(g, q) = At(h, q)

IsFailure(g) == \A p \in Cells : At(g, p) = -1

Done == pc = "done"

---------------------------------------------------------------------------
(* The claims *)

\* C1: a board with a repeated non-zero value in some row, column or box is
\* answered with the grid of -1, and the search is never started on it.
C1_InvalidGivesFailure ==
    HasDuplicate(input) =>
        /\ pc # "search"
        /\ stack = <<>>
        /\ Done => (result = failure /\ IsFailure(result))

C1_Witness == Done /\ HasDuplicate(input) /\ IsFailure(result)

\* C2: a board without duplicates that has a completion is answered with one
\* of its completions (solved, and equal to the input on its non-zero cells);
\* when there is only one completion, that is the answer.
C2_SolvableGivesCompletion ==
    (Done /\ ~HasDuplicate(input) /\ Completions(input) # {}) =>
        /\ NoEmpty(result)
        /\ IsSolved(result)
        /\ Agrees(result, input)
        /\ result \in Completions(input)

C2_Witness ==
    /\ Done /\ ~HasDuplicate(input)
    /\ Cardinality(EmptyCells(input)) >= 3
    /\ Cardinality(Completions(input)) = 1
    /\ {result} = Completions(input)

\* C3: a board without duplicates that has no completion is answered with the
\* grid of -1; the answer is the grid of -1 only when no completion exists,
\* and no answer has an empty cell.
C3_UnsolvableGivesFailure ==
    Done =>
        /\ (~HasDuplicate(input) /\ Completions(input) = {}) => IsFailure(result)
        /\ (~HasDuplicate(input) /\ IsFailure(result)) => Completions(input) = {}
        /\ IsFailure(result) \/ NoEmpty(result)

C3_Witness ==
    /\ Done /\ ~HasDuplicate(input) /\ Completions(input) = {}
    /\ IsFailure(result)
    /\ \E p \in EmptyCells(input) : FreeDigits(input, p) # {}

\* C4: the answer to a board with completions is the completion whose values
\* on the empty cells, read in row-major order, are lexicographically smallest.
C4_AnswerIsLexSmallest ==
    (Done /\ ~HasDuplicate(input) /\ Completions(input) # {}) =>
        \A h \in Completions(input) : h = result \/ LexLess(result, h)

\* C5: a board with no empty cell and no duplicate is answered with itself;
\* so is every board sudoku_solver has answered with and is applied to again.
C5_SolvedUnchanged ==
    Done =>
        /\ (NoEmpty(input) /\ ~HasDuplicate(input)) => result = input
        /\ calls > 1 => result = input

C5_Witness == Done /\ calls > 1 /\ NoEmpty(input) /\ result = input

\* C6: check_invalid is true exactly of the boards with a repeated non-zero
\* value in a row, a column or a box; it is false of the all-empty board and
\* of a solved board; and the step that applies it leaves the board as it was.
C6_CheckInvalidIffDuplicate ==
    /\ [](/\ check_invalid(sudoku) <=> HasDuplicate(sudoku)
          /\ pc = "start" =>
                /\ check_invalid(input) <=> HasDuplicate(input)
                /\ IsSolved(input) => ~check_invalid(input)
                /\ ~check_invalid([r \in Idx |-> [c \in Idx |-> 0]]))
    /\ [][pc = "start" => input' = input]_vars

C6_Witness ==
    /\ Done /\ check_invalid(input)
    /\ BoxDuplicate(input) /\ ~RowDuplicate(input) /\ ~ColDuplicate(input)

\* C7: for an empty cell, generate_candidates returns exactly the digits that
\* none of the cell's row, column and box holds, each once.
C7_CandidatesExact ==
    \A p \in EmptyCells(sudoku) :
        LET free == FreeDigits(sudoku, p)
        IN  \A l \in generate_candidates(sudoku, p[1], p[2]) :
                SetOf(l) = free /\ Len(l) = Cardinality(free)

\* an invocation has listed the candidates of its cell and tried none yet;
\* a digit that neither the row nor the column holds is not among them
C7_Witness ==
    /\ pc = "search" /\ stack # <<>> /\ Top.pc = "loop"
    /\ sudoku[Top.x][Top.y] = 0
    /\ Top.cands # <<>>
    /\ \E d \in 1 .. 9 :
          /\ d \notin SetOf(Top.cands)
          /\ \A q \in Cells : (SameRow(q, <<Top.x, Top.y>>) \/ SameCol(q, <<Top.x, Top.y>>))
                                  => At(sudoku, q) # d

\* C8: a solver invocation that returns None leaves the board and the list of
\* empty cells as they were when it was entered: its cell holds 0 and its
\* coordinate is the first of the list again.
C8_FailureRestores ==
    [][(pc = "search" /\ ret' = "none" /\ Len(stack') < Len(stack)) =>
          /\ sudoku' = Top.board0
          /\ zeroes' = Top.zeroes0
          /\ sudoku'[Top.x][Top.y] = 0
          /\ Head(zeroes') = <<Top.x, Top.y>>]_vars

\* an invocation that tried a value has returned None to its caller, which
\* has another value to try
C8_Witness ==
    /\ pc = "search" /\ ret = "none" /\ stack # <<>>
    /\ Top.pc = "call" /\ Top.cands # <<>>
    /\ candidate_set(sudoku, Head(zeroes)[1], Head(zeroes)[2]) # {}

\* C9: during the search no row, column or box of the working board holds a
\* repeated non-zero value, and the non-zero cells of the input keep their value.
C9_SearchKeepsRules ==
    pc = "search" => (~HasDuplicate(sudoku) /\ Agrees(sudoku, input))

C9_Witness ==
    /\ pc = "search" /\ ret = "none" /\ Len(stack) >= 2
    /\ sudoku # input

\* C10 as stated: the nested solver invocations never outnumber the empty
\* cells of the input.
C10_DepthAtMostEmpty == Len(stack) <= Cardinality(EmptyCells(input))

\* C10, amended: the nested solver invocations never outnumber the empty cells
\* of the input plus one (the invocation that finds the list empty).
C10_DepthAtMostEmptyPlusOne == Len(stack) <= Cardinality(EmptyCells(input)) + 1

C10_Witness ==
    /\ Cardinality(EmptyCells(input)) >= 3
    /\ Len(stack) = Cardinality(EmptyCells(input)) + 1

====
